---- MODULE Spec2Model ----
(***************************************************************************)
(* Model of quantum_service/hybrid_lstm.py: the QuantumLSTMForecaster      *)
(* (prepare_data, train, predict, benchmark_vs_classical) and the          *)
(* QuantumVariationalLayer (construction, backend binding, forward).       *)
(*                                                                         *)
(* Numbers are integers.  A value normalized by a StandardScaler is kept   *)
(* exactly, as the pair <<num, den2>> standing for num / sqrt(den2).       *)
(* Learned weights are kept as what they were learned from (the table, the *)
(* scaler that normalized it, the number of gradient steps).               *)
(***************************************************************************)
EXTENDS Integers, Sequences, FiniteSets, TLC

VARIABLES
    QUANTUM_AVAILABLE,  \* module global set by the qiskit import (lines 17-26)
    quantum_enabled,    \* QuantumLSTMForecaster.quantum_enabled
    scaler,             \* QuantumLSTMForecaster.scaler
    model,              \* QuantumLSTMForecaster.model
    is_trained,         \* QuantumLSTMForecaster.is_trained
    call,               \* the last call made on the forecaster and its outcome
    train_returned,     \* history: some train call has returned normally
    prepared_before,    \* history: prepare_data has been invoked on the forecaster
    layer,              \* a QuantumVariationalLayer (None while none is constructed)
    ctor,               \* the last construction of a layer and its outcome
    fwd,                \* the last forward call on the layer and its outcome
    ci,                 \* the last _calculate_confidence_interval call and its outcome
    response,           \* the last HTTP request handled and the response to it
    threads,            \* the requests being handled concurrently, each with its position
    encoder,            \* a HybridLSTM (None while none is constructed)
    encoded             \* the last forward call on the HybridLSTM and its outcome

vars == <<QUANTUM_AVAILABLE, quantum_enabled, scaler, model, is_trained, call,
          train_returned, prepared_before, layer, ctor, fwd, ci, response, threads,
          encoder, encoded>>

forecaster_vars == <<QUANTUM_AVAILABLE, quantum_enabled, scaler, model, is_trained,
                     call, train_returned, prepared_before>>

layer_vars == <<layer, ctor, fwd>>

service_vars == <<ci, response, threads>>

encoder_vars == <<encoder, encoded>>

-----------------------------------------------------------------------------
(* Program constants *)

sequence_length == 24

features == <<"price", "volume", "volatility", "demand">>

MaxQubits == 4

BenchmarkSteps == 20

-----------------------------------------------------------------------------
(* Bounds of the model *)

MaxExtraRows == 2      \* tables have up to sequence_length + MaxExtraRows rows

MaxEpochs == 1         \* train is called with epochs in 0..MaxEpochs

MaxHours == 2          \* predict is called with hours_ahead in 0..MaxHours

MaxExtraWidth == 0     \* layers are up to 2 * MaxQubits + MaxExtraWidth channels wide

MaxBatch == 2          \* forward is called on batches of 0..MaxBatch samples

MaxCell == 1           \* the samples of a batch are generated from 0..MaxCell

MaxPredictions == 3    \* confidence intervals are computed for 0..MaxPredictions values

MaxPrediction == 1     \* each of them in -MaxPrediction..MaxPrediction

MaxThreads == 2        \* requests handled at the same time by the threaded server

MaxSamples == 2        \* the HybridLSTM is run on batches of 1..MaxSamples samples

MaxSteps == 2          \* of 1..MaxSteps timesteps each

-----------------------------------------------------------------------------
(* Values *)

None == [kind |-> "None"]

NoError == "none"

ErrSchema == "ValueError: None of the required features found in data"

ErrNotTrained == "ValueError: Model must be trained before making predictions"

ErrMinSamples == "ValueError: Found array with 0 sample(s)"

ErrNotFitted == "NotFittedError: This StandardScaler instance is not fitted yet"

ErrFeatureCount == "ValueError: X has a different number of features than StandardScaler is expecting"

ErrIndex == "IndexError"

ErrShape == "RuntimeError: input.size(-1) must be equal to input_size"

ErrEmptyBatch == "RuntimeError: forward on an empty batch"

ErrBackend == "Exception raised by Estimator()"

-----------------------------------------------------------------------------
(* Input tables (pandas DataFrames): a set of column names, a number of    *)
(* rows, and cell values generated from the row and the column.            *)

FeatureColumns == {"price", "volume", "volatility", "demand"}

RowCounts == {0} \cup (sequence_length .. sequence_length + MaxExtraRows)

\* Tables with all four feature columns, of every row count; one table with
\* no feature column (the one of test_input_validation); one table with two
\* of the feature columns, neither of them the price.
Tables ==
    [cols : {FeatureColumns}, nrows : RowCounts]
    \cup {[cols |-> {"invalid_column"}, nrows |-> 3]}
    \cup {[cols |-> {"volume", "demand", "invalid_column"},
           nrows |-> sequence_length + MaxExtraRows]}

ColumnIndex(c) ==
    CASE c = "price" -> 1 [] c = "volume" -> 2 [] c = "volatility" -> 3
      [] c = "demand" -> 4 [] OTHER -> 5

\* data[c].values[i-1]: the value of column c in row i.  The volatility
\* column is constant over the rows (zero variance).
Cell(data, i, c) ==
    IF c = "volatility" THEN 3
    ELSE (i + ColumnIndex(c) * (i \div 2)) % 7

\* data[feature_cols].values: one sequence of cells per row
Values(data, cols) ==
    [i \in 1 .. data.nrows |-> [j \in 1 .. Len(cols) |-> Cell(data, i, cols[j])]]

-----------------------------------------------------------------------------
(* sklearn.preprocessing.StandardScaler as used by prepare_data *)

Unfitted == [kind |-> "StandardScaler", fitted |-> FALSE]

\* the sum over rows 1..n of feature j (of its square when sq)
RECURSIVE SumOver(_, _, _, _)
SumOver(rows, n, j, sq) ==
    IF n = 0 THEN 0
    ELSE (IF sq THEN rows[n][j] * rows[n][j] ELSE rows[n][j]) + SumOver(rows, n - 1, j, sq)

\* StandardScaler().fit(rows) on n rows of nf features: per-feature mean and
\* standard deviation, kept as n, the sums and the sums of squares.
Fit(rows, n, nf) ==
    [kind       |-> "StandardScaler",
     fitted     |-> TRUE,
     n_features |-> nf,
     n          |-> n,
     sum        |-> [j \in 1 .. nf |-> SumOver(rows, n, j, FALSE)],
     sumsq      |-> [j \in 1 .. nf |-> SumOver(rows, n, j, TRUE)]]

\* (x - mean) / scale for feature j, as <<num, den2>> = num / sqrt(den2):
\* mean = sum/n, scale = sqrt(n*sumsq - sum^2)/n, and scale = 1 where the
\* variance is zero.
TransformCell(s, j, x) ==
    LET v == s.n * s.sumsq[j] - s.sum[j] * s.sum[j]
    IN  <<s.n * x - s.sum[j], IF v = 0 THEN s.n * s.n ELSE v>>

Transform(s, rows, n) ==
    [i \in 1 .. n |-> [j \in 1 .. s.n_features |-> TransformCell(s, j, rows[i][j])]]

-----------------------------------------------------------------------------
(* QuantumVariationalLayer: construction and backend binding *)

Min(a, b) == IF a < b THEN a ELSE b

\* What the environment does to a construction: whether IBMQ_TOKEN is set,
\* which call of the remote binding raises (if any), and whether the local
\* simulator's constructor Estimator() raises.
Envs ==
    [token : BOOLEAN,
     remote_raises : {"none", "QiskitRuntimeService", "least_busy", "RuntimeEstimator"},
     local_raises : BOOLEAN]

\* One environment per outcome of a construction: the local simulator is
\* bound, the remote backend is bound, the construction raises.
ProcessEnvs ==
    { [token |-> FALSE, remote_raises |-> "none", local_raises |-> FALSE],
      [token |-> TRUE, remote_raises |-> "none", local_raises |-> FALSE],
      [token |-> TRUE, remote_raises |-> "QiskitRuntimeService", local_raises |-> TRUE] }

\* Estimator(): the local simulator
Estimator(env) ==
    IF env.local_raises THEN [raised |-> TRUE, estimator |-> "none"]
    ELSE [raised |-> FALSE, estimator |-> "Estimator"]

\* _get_estimator: the try block binds the remote backend when IBMQ_TOKEN is
\* set and the local simulator otherwise; the except block returns
\* Estimator(), outside any try.
get_estimator(env) ==
    LET tried ==
            IF env.token
            THEN IF env.remote_raises = "none"
                 THEN [raised |-> FALSE, estimator |-> "RuntimeEstimator"]
                 ELSE [raised |-> TRUE, estimator |-> "none"]
            ELSE Estimator(env)
    IN  IF tried.raised THEN Estimator(env) ELSE tried

\* whether the try block of _get_estimator raised
binding_raised(env) ==
    IF env.token THEN env.remote_raises # "none" ELSE env.local_raises

\* QuantumVariationalLayer.__init__ (with _init_quantum_circuit)
QuantumVariationalLayer_init(input_size, quantum_enabled_arg, available, env) ==
    LET qe == quantum_enabled_arg /\ available
        nq == Min(MaxQubits, input_size)
        est == get_estimator(env)
    IN  IF qe
        THEN IF est.raised
             THEN [raised |-> ErrBackend, layer |-> None]
             ELSE [raised |-> NoError,
                   layer  |-> [quantum_enabled |-> TRUE,
                               kind            |-> "QuantumVariationalLayer",
                               estimator       |-> est.estimator,
                               input_size      |-> input_size,
                               n_qubits        |-> nq,
                               n_params        |-> nq * 2,
                               classical_layer |-> FALSE]]
        ELSE [raised |-> NoError,
              layer  |-> [quantum_enabled |-> FALSE,
                          kind            |-> "QuantumVariationalLayer",
                          estimator       |-> "none",
                          input_size      |-> input_size,
                          n_qubits        |-> nq,
                          n_params        |-> 0,
                          classical_layer |-> TRUE]]

\* The backend a constructed layer is bound to
Backend(l) ==
    IF ~l.quantum_enabled THEN "ClassicalFallback"
    ELSE IF l.estimator = "RuntimeEstimator" THEN "RemoteHardware"
    ELSE "LocalSimulator"

-----------------------------------------------------------------------------
(* QuantumVariationalLayer.forward *)

\* torch.tanh(self.classical_layer(x)) for one sample: input_size channels
classical_forward(l, row) ==
    [j \in 1 .. l.input_size |-> [fn |-> "tanh(classical_layer)", of |-> row, channel |-> j]]

\* params_values = x[i, :self.n_qubits * 2]
params_values(l, row) == SubSeq(row, 1, Min(l.n_qubits * 2, Len(row)))

\* whether estimator.run(...) / job.result() raises for a sample: the
\* backend fails, or the number of values given is not the number of
\* parameters of the circuit
execution_raises(l, row, backend_fails) ==
    backend_fails \/ Len(params_values(l, row)) # l.n_params

\* expectations = [result.values[j] for j in range(self.n_qubits)]
expectations(l, row) ==
    [j \in 1 .. l.n_qubits |-> [fn |-> "expectation", of |-> params_values(l, row),
                                 channel |-> j]]

\* torch.tanh(x[i, :self.n_qubits])
sample_fallback(l, row) ==
    [j \in 1 .. l.n_qubits |-> [fn |-> "tanh", of |-> row[j], channel |-> j]]

\* the row of zeros output starts with
zero_row(l) == [j \in 1 .. l.n_qubits |-> [fn |-> "zero", of |-> 0, channel |-> j]]

\* (mutant) the first sample whose execution raises ends the loop, the rows
\* after it staying zero
RECURSIVE sample_loop_abort(_, _, _, _)
sample_loop_abort(l, x, fails, i) ==
    IF i > Len(x) THEN [output |-> <<>>, executed |-> {}]
    ELSE IF execution_raises(l, x[i], i \in fails)
         THEN [output |-> <<sample_fallback(l, x[i])>>
                          \o [k \in 1 .. Len(x) - i |-> zero_row(l)],
               executed |-> {}]
         ELSE LET rest == sample_loop_abort(l, x, fails, i + 1)
              IN  [output |-> <<expectations(l, x[i])>> \o rest.output,
                   executed |-> {i} \cup rest.executed]

\* the body of "for i in range(batch_size)" run for samples i..Len(x): the
\* rows of output it sets and the samples whose execution came through
RECURSIVE sample_loop(_, _, _, _)
sample_loop(l, x, fails, i) ==
    IF i > Len(x) THEN [output |-> <<>>, executed |-> {}]
    ELSE LET rest == sample_loop(l, x, fails, i + 1)
         IN  IF execution_raises(l, x[i], i \in fails)
             THEN [output |-> <<sample_fallback(l, x[i])>> \o rest.output,
                   executed |-> rest.executed]
             ELSE [output |-> <<expectations(l, x[i])>> \o rest.output,
                   executed |-> {i} \cup rest.executed]

\* QuantumVariationalLayer.forward(x): the except clause inside the loop
\* catches whatever the execution of a sample raises
forward(l, x, fails) ==
    IF ~l.quantum_enabled
    THEN [raised |-> NoError, executed |-> {},
          output |-> [i \in 1 .. Len(x) |-> classical_forward(l, x[i])]]
    ELSE LET r == sample_loop(l, x, fails, 1)
         IN  [raised |-> NoError, executed |-> r.executed, output |-> r.output]

\* Where a float32 result lies with respect to the interval (-1, 1).
\* torch.tanh(v) in float32: 1 - tanh(v) is below half the spacing of the
\* floats under 1.0 from v = 10 on, so the result is rounded to exactly 1.0
\* (and to -1.0 from v = -10 down).
tanh_range(v) ==
    IF v >= 10 THEN "one" ELSE IF v <= 0 - 10 THEN "minus_one" ELSE "inside"

\* result.values[j-1], the expectation of the observable 'I'*(j-1) + 'Z' +
\* 'I'*(n_qubits-j), which acts on qubit n_qubits-j (qiskit numbers the
\* qubits from the right).  After ry(theta_k), rz and the chain of cx gates
\* the expectation of Z on qubit q is the product of cos(theta_k) over
\* k = 0 .. q; it is exactly 1.0 when these angles are all zero.  The angles
\* given are whole numbers, whose cosine is 1 or -1 only at zero.
expectation_range(params, n_qubits, j) ==
    IF \A k \in 1 .. n_qubits - j + 1 : params[k] = 0 THEN "one" ELSE "inside"

\* abs(v)
Abs(v) == IF v < 0 THEN 0 - v ELSE v

RECURSIVE SumAbs(_, _)
SumAbs(row, n) == IF n = 0 THEN 0 ELSE Abs(row[n]) + SumAbs(row, n - 1)

\* torch.tanh(self.classical_layer(x))[j]: nn.Linear(input_size, input_size)
\* draws its weights and bias from U(-1/sqrt(input_size), 1/sqrt(input_size)),
\* so the affine map can give any value v with
\* abs(v) < (sum(abs(x)) + 1) / sqrt(input_size); the results tanh can then
\* round to
classical_ranges(row) ==
    LET reach == SumAbs(row, Len(row)) + 1
    IN  {"inside"} \cup (IF reach * reach > 100 * Len(row) THEN {"one", "minus_one"} ELSE {})

\* the results an output cell of forward can take
cell_ranges(cell) ==
    CASE cell.fn = "tanh" -> {tanh_range(cell.of)}
      [] cell.fn = "expectation" -> {expectation_range(cell.of, Len(cell.of) \div 2, cell.channel)}
      [] cell.fn = "tanh(classical_layer)" -> classical_ranges(cell.of)
      [] OTHER -> {"zero"}

-----------------------------------------------------------------------------
(* HybridLSTM *)

\* The weights of a model that has taken no gradient step
InitialWeights == [learned_from |-> None, steps |-> 0]

\* HybridLSTM.__init__
HybridLSTM_init(input_size, quantum_enabled_arg, available, env) ==
    LET ql == QuantumVariationalLayer_init(input_size, quantum_enabled_arg, available, env)
    IN  IF ql.raised # NoError
        THEN [raised |-> ql.raised, model |-> None]
        ELSE [raised |-> NoError,
              model  |-> [quantum_enabled |-> quantum_enabled_arg,
                          kind            |-> "HybridLSTM",
                          input_size      |-> input_size,
                          hidden_size     |-> 64,
                          quantum_layer   |-> ql.layer,
                          training        |-> TRUE,
                          weights         |-> InitialWeights]]

\* HybridLSTM.forward on a batch of batch_size windows of the given width:
\* the error it raises, if any.  The recurrent layer rejects a width other
\* than input_size; what it does with an empty batch is left open.
HybridLSTM_forward_error(m, batch_size, width, empty_batch_raises) ==
    IF width # m.input_size THEN ErrShape
    ELSE IF batch_size = 0 /\ empty_batch_raises THEN ErrEmptyBatch
    ELSE NoError

\* self.train(): the mode in which dropout is active
model_train(m) == [m EXCEPT !.training = TRUE]

\* (mutant) eval() leaves the mode as it is
model_eval_noop(m) == m

\* self.eval(): the mode in which dropout is the identity
model_eval(m) == [m EXCEPT !.training = FALSE]

\* a forward pass m(X) whose output is used for `purpose`: nn.Dropout and the
\* dropout between the LSTM layers are active when the model is in training
\* mode
forward_pass(m, purpose) == [purpose |-> purpose, training |-> m.training]

ErrAssign == "RuntimeError: The expanded size of the tensor must match the existing size"

\* x[:, t, :]: the feature vectors of timestep t, one per sample
timestep(x, t) == [i \in 1 .. Len(x) |-> x[i][t]]

\* quantum_enhanced[:, t, :] = x[:, t, :]
pass_through(x, t) ==
    [i \in 1 .. Len(x) |->
        [j \in 1 .. Len(x[i][t]) |-> [fn |-> "identity", of |-> x[i][t][j], channel |-> j]]]

\* the guard of line 156: if self.quantum_enabled and features >= 4
layer_applies(m, width) == m.quantum_enabled /\ width >= 4

\* the body of "for t in range(seq_len)" for one t: the rows it assigns to
\* quantum_enhanced[:, t, :].  The slice has the width of x; rows of another
\* width cannot be assigned to it, and the classical layer's nn.Linear
\* rejects rows of another width than input_size.
encode_timestep(m, x, t, fails) ==
    LET width == Len(x[1][t]) IN
    IF layer_applies(m, width)
    THEN LET l == m.quantum_layer
             r == forward(l, timestep(x, t), {i \in 1 .. Len(x) : <<i, t>> \in fails})
         IN  [invoked |-> TRUE,
              raised  |-> IF ~l.quantum_enabled /\ width # l.input_size THEN ErrShape
                          ELSE IF Len(r.output[1]) # width THEN ErrAssign
                          ELSE NoError,
              rows    |-> r.output]
    ELSE [invoked |-> FALSE, raised |-> NoError, rows |-> pass_through(x, t)]

\* HybridLSTM.forward(x) up to the recurrent layer, x a batch of at least one
\* sample of at least one timestep: the timesteps on which the variational
\* layer was invoked, the error raised (if any) and quantum_enhanced
HybridLSTM_forward(m, x, fails) ==
    LET seq_len == Len(x[1])
        steps == [t \in 1 .. seq_len |-> encode_timestep(m, x, t, fails)]
        bad == {t \in 1 .. seq_len : steps[t].raised # NoError}
        stop == IF bad = {} THEN seq_len ELSE CHOOSE t \in bad : \A u \in bad : t <= u
        lstm == HybridLSTM_forward_error(m, Len(x), Len(x[1][1]), FALSE)
    IN  [invoked |-> {t \in 1 .. stop : steps[t].invoked},
         raised |-> IF bad # {} THEN steps[stop].raised ELSE lstm,
         quantum_enhanced |->
             IF bad # {} THEN None
             ELSE [i \in 1 .. Len(x) |-> [t \in 1 .. seq_len |-> steps[t].rows[i]]]]

-----------------------------------------------------------------------------
(* QuantumLSTMForecaster.prepare_data *)

\* feature_cols = [col for col in self.features if col in data.columns]
feature_cols(data) == SelectSeq(features, LAMBDA c : c \in data.cols)

\* (mutant) the guard asks for every configured feature
some_feature_col_missing(cols) == Len(cols) < Len(features)

\* the guard of "raise ValueError(None of the required features ...)"
no_feature_cols(cols) == cols = <<>>

\* (mutant) a scaler is fitted on every call, whatever is stored
scale_features_refit(sc, rows, n, nf) ==
    IF n = 0
    THEN [scaler |-> Unfitted, raised |-> ErrMinSamples, fitted_now |-> FALSE, scaled |-> <<>>]
    ELSE LET s == Fit(rows, n, nf)
         IN  [scaler |-> s, raised |-> NoError, fitted_now |-> TRUE,
              scaled |-> Transform(s, rows, n)]

\* "Scale features" on n rows of nf features: fit a new scaler when none is
\* stored, else transform with the stored one.  self.scaler is assigned
\* before fit_transform runs, and sklearn rejects an array of zero rows, an
\* unfitted scaler and an array of another width than the one fitted.
scale_features(sc, rows, n, nf) ==
    IF sc = None
    THEN IF n = 0
         THEN [scaler |-> Unfitted, raised |-> ErrMinSamples, fitted_now |-> FALSE,
               scaled |-> <<>>]
         ELSE LET s == Fit(rows, n, nf)
              IN  [scaler |-> s, raised |-> NoError, fitted_now |-> TRUE,
                   scaled |-> Transform(s, rows, n)]
    ELSE IF ~sc.fitted
         THEN [scaler |-> sc, raised |-> ErrNotFitted, fitted_now |-> FALSE, scaled |-> <<>>]
    ELSE IF n = 0
         THEN [scaler |-> sc, raised |-> ErrMinSamples, fitted_now |-> FALSE, scaled |-> <<>>]
    ELSE IF nf # sc.n_features
         THEN [scaler |-> sc, raised |-> ErrFeatureCount, fitted_now |-> FALSE, scaled |-> <<>>]
    ELSE [scaler |-> sc, raised |-> NoError, fitted_now |-> FALSE,
          scaled |-> Transform(sc, rows, n)]

\* range(len(scaled_features) - self.sequence_length) has this many values
num_sequences(n) == IF n > sequence_length THEN n - sequence_length ELSE 0

\* (mutant) the target is taken from the last row of the window
create_sequences_target_in_window(scaled, n) ==
    [X |-> [i \in 1 .. num_sequences(n) |-> SubSeq(scaled, i, i + sequence_length - 1)],
     y |-> [i \in 1 .. num_sequences(n) |-> scaled[i + sequence_length - 1][1]]]

\* "Create sequences" from n scaled rows: one window and one target per i in
\* that range
create_sequences(scaled, n) ==
    [X |-> [i \in 1 .. num_sequences(n) |-> SubSeq(scaled, i, i + sequence_length - 1)],
     y |-> [i \in 1 .. num_sequences(n) |-> scaled[i + sequence_length][1]]]

\* the outcome of a call that did not reach prepare_data
NotInvoked ==
    [invoked |-> FALSE, raised |-> NoError, fitted_now |-> FALSE, scaler |-> None,
     scaler_before |-> None, n_windows |-> 0, width |-> 0, X |-> <<>>, y |-> <<>>]

\* prepare_data(self, data): the scaler it leaves in self, the error it
\* raises (if any) and the (X, y) it returns, with len(X) and X.shape[2]
prepare_data(self, data) ==
    LET cols == feature_cols(data) IN
    IF no_feature_cols(cols)
    THEN [invoked |-> TRUE, raised |-> ErrSchema, fitted_now |-> FALSE,
          scaler |-> self.scaler, scaler_before |-> self.scaler,
          n_windows |-> 0, width |-> 0, X |-> <<>>, y |-> <<>>]
    ELSE LET sf == scale_features(self.scaler, Values(data, cols), data.nrows, Len(cols))
             sq == create_sequences(sf.scaled, data.nrows)
             ok == sf.raised = NoError
         IN  [invoked |-> TRUE, raised |-> sf.raised, fitted_now |-> sf.fitted_now,
              scaler |-> sf.scaler, scaler_before |-> self.scaler,
              n_windows |-> IF ok THEN num_sequences(data.nrows) ELSE 0,
              width |-> IF ok /\ num_sequences(data.nrows) > 0 THEN Len(cols) ELSE 0,
              X |-> IF ok THEN sq.X ELSE <<>>,
              y |-> IF ok THEN sq.y ELSE <<>>]

-----------------------------------------------------------------------------
(* QuantumLSTMForecaster.train *)

\* (mutant) the training split is rounded up
train_size_rounded_up(n) == (8 * n + 9) \div 10

\* train_size = int(0.8 * len(X)): the product is at least the exact
\* 0.8 * len(X) (the double 0.8 is above 8/10), so int() gives the floor
train_size(n) == (8 * n) \div 10

\* the positions 1..n of the windows of X, in place of the windows
window_positions(n) == [i \in 1 .. n |-> i]

\* X_train = X[:train_size]
X_train(X, ts) == SubSeq(X, 1, ts)

\* X_val = X[train_size:]
X_val(X, ts) == SubSeq(X, ts + 1, Len(X))

\* (mutant) the loop runs but the optimizer never steps
training_loop_no_step(m, data, sc, n_windows, width, epochs, empty_batch_raises) ==
    [raised |-> NoError, model |-> [m EXCEPT !.training = FALSE], passes |-> {}]

\* the state in which the training loop leaves the model after `epochs`
\* passes, or the error raised by the first forward pass; each epoch is
\* self.model.train(), a forward pass on X_train and the optimizer step, then
\* self.model.eval() and a forward pass on X_val
training_loop(m, data, sc, n_windows, width, epochs, empty_batch_raises) ==
    LET ts == train_size(n_windows)
        err == IF epochs > 0 THEN HybridLSTM_forward_error(m, ts, width, empty_batch_raises)
               ELSE NoError
        stepped == [model_train(m) EXCEPT
                       !.weights = [learned_from |-> [table |-> data, scaler |-> sc,
                                                      first |-> 1, last |-> ts],
                                    steps |-> epochs]]
    IN  IF err # NoError
        THEN [raised |-> err, model |-> model_train(m), passes |-> {}]
        ELSE IF epochs > 0
        THEN [raised |-> NoError, model |-> model_eval(stepped),
              passes |-> {forward_pass(model_train(m), "gradient_step"),
                          forward_pass(model_eval(stepped), "val_loss")}]
        ELSE [raised |-> NoError, model |-> m, passes |-> {}]

\* the return statement reads train_losses[-1] and val_losses[-1]
train_return_error(epochs) == IF epochs > 0 THEN NoError ELSE ErrIndex

\* train, p being what its prepare_data(training_data) call did (line 216)
train(self, p, data, epochs, available, env, empty_batch_raises) ==
    LET s1 == [self EXCEPT !.scaler = p.scaler]
    IN  IF p.raised # NoError
        THEN [self |-> s1, raised |-> p.raised, prep |-> p, passes |-> {}, result |-> None]
        ELSE IF p.n_windows = 0
        THEN [self |-> s1, raised |-> ErrIndex, prep |-> p, passes |-> {}, result |-> None]
        ELSE
        LET c == HybridLSTM_init(p.width, self.quantum_enabled, available, env) IN
        IF c.raised # NoError
        THEN [self |-> s1, raised |-> c.raised, prep |-> p, passes |-> {}, result |-> None]
        ELSE
        LET t == training_loop(c.model, data, p.scaler, p.n_windows, p.width, epochs,
                               empty_batch_raises)
            s2 == [s1 EXCEPT !.model = t.model]
        IN  IF t.raised # NoError
            THEN [self |-> s2, raised |-> t.raised, prep |-> p, passes |-> t.passes, result |-> None]
            ELSE
            LET s3 == [s2 EXCEPT !.is_trained = TRUE]
                re == train_return_error(epochs)
            IN  IF re # NoError
                THEN [self |-> s3, raised |-> re, prep |-> p, passes |-> t.passes, result |-> None]
                ELSE [self |-> s3, raised |-> NoError, prep |-> p, passes |-> t.passes,
                      result |-> [kind |-> "train",
                                  quantum_enabled |-> self.quantum_enabled,
                                  epochs |-> epochs,
                                  n_train |-> train_size(p.n_windows),
                                  n_val |-> p.n_windows - train_size(p.n_windows),
                                  X_train |-> X_train(window_positions(p.n_windows),
                                                      train_size(p.n_windows)),
                                  X_val |-> X_val(window_positions(p.n_windows),
                                                  train_size(p.n_windows))]]

-----------------------------------------------------------------------------
(* QuantumLSTMForecaster.predict *)

Zero == <<0, 1>>

\* torch.zeros(1, self.sequence_length, len(self.features))[0]
zero_window == [i \in 1 .. sequence_length |-> [j \in 1 .. Len(features) |-> Zero]]

\* last_sequence = X[-1:] if len(X) > 0 else torch.zeros(...)
last_sequence(X) == IF Len(X) > 0 THEN X[Len(X)] ELSE zero_window

\* last_sequence.shape[2]
last_sequence_width(p) == IF p.n_windows > 0 THEN p.width ELSE Len(features)

\* (mutant) the other features of the new row are ones
new_row_ones(width, k) == [j \in 1 .. width |-> IF j = 1 THEN [pred |-> k] ELSE <<1, 1>>]

\* new_row = torch.zeros(1, 1, width); new_row[0, 0, 0] = pred
new_row(width, k) == [j \in 1 .. width |-> IF j = 1 THEN [pred |-> k] ELSE Zero]

\* current_sequence = torch.cat([current_sequence[:, 1:, :], new_row], dim=1)
shift(window, k) == Append(Tail(window), new_row(Len(window[1]), k))

\* the window fed to the model at roll-forward step k
RECURSIVE current_sequence(_, _)
current_sequence(start, k) ==
    IF k = 1 THEN start ELSE shift(current_sequence(start, k - 1), k - 1)

\* dummy = np.zeros((len(predictions), len(self.features))): its columns
dummy_columns == Len(features)

\* self.scaler.inverse_transform(np.zeros((n, len(self.features)))): sklearn
\* rejects zero rows; the per-feature scale broadcasts over the columns only
\* when it has one entry or as many as there are columns.
inverse_transform_error(sc, n) ==
    IF n = 0 THEN ErrMinSamples
    ELSE IF sc.n_features # dummy_columns /\ sc.n_features # 1 THEN ErrFeatureCount
    ELSE NoError

\* What self.model(current_sequence) returns over the steps of a forecast
\* of h hours, in the units of the normalized price: the same value at
\* every step, or a different one at every step
ModelOutputs(h) == {[k \in 1 .. h |-> 0], [k \in 1 .. h |-> k]}

\* A float of the forecast: u + w * z_score * std, u in the units of the
\* normalized price.  inverse_transform maps u to mean_[0] + scale_[0] * u
\* with scale_[0] > 0, which keeps the order and multiplies np.std by
\* scale_[0]; the scaler that did it is kept in the result.
Number(u) == [u |-> u, w |-> 0]

\* self.scaler.inverse_transform(dummy)[:, 0]
inverse_transform(sc, predictions) ==
    [k \in 1 .. Len(predictions) |-> Number(predictions[k])]

\* z_score = 1.96, in hundredths
z_score == 196

RECURSIVE SumU(_, _, _)
SumU(predictions, n, sq) ==
    IF n = 0 THEN 0
    ELSE (IF sq THEN predictions[n].u * predictions[n].u ELSE predictions[n].u)
         + SumU(predictions, n - 1, sq)

\* np.std(predictions) = sqrt(v) / n, v = n * sum(u^2) - sum(u)^2
np_std(predictions) ==
    LET n == Len(predictions)
    IN  [n |-> n, v |-> n * SumU(predictions, n, TRUE)
                        - SumU(predictions, n, FALSE) * SumU(predictions, n, FALSE)]

\* (mutant) the band is laid above the predictions only
calculate_confidence_interval_one_sided(predictions) ==
    [lower |-> predictions,
     upper |-> [i \in 1 .. Len(predictions) |->
                  [predictions[i] EXCEPT !.w = predictions[i].w + 2]],
     std |-> np_std(predictions),
     confidence |-> "0.95"]

\* _calculate_confidence_interval(predictions)
calculate_confidence_interval(predictions) ==
    [lower |-> [i \in 1 .. Len(predictions) |->
                  [predictions[i] EXCEPT !.w = predictions[i].w - 1]],
     upper |-> [i \in 1 .. Len(predictions) |->
                  [predictions[i] EXCEPT !.w = predictions[i].w + 1]],
     std |-> np_std(predictions),
     confidence |-> "0.95"]

\* t * abs(t)
SignedSquare(t) == IF t < 0 THEN 0 - t * t ELSE t * t

\* x < y for two floats of a forecast whose np.std is std:
\* 100 * n * (x.u - y.u) < z_score * (y.w - x.w) * sqrt(v), compared by the
\* signed squares of the two sides
Less(x, y, std) ==
    SignedSquare(100 * std.n * (x.u - y.u))
        < SignedSquare(z_score * (y.w - x.w)) * std.v

\* the guard of "raise ValueError(Model must be trained ...)"
not_trained(self) == ~self.is_trained

\* predict, p being what its prepare_data(recent_data) call does when the
\* guard lets it be reached (line 281)
predict(self, p, data, hours_ahead, outputs) ==
    IF not_trained(self)
    THEN [self |-> self, raised |-> ErrNotTrained, prep |-> NotInvoked, passes |-> {},
          result |-> None]
    ELSE
    LET s1 == [self EXCEPT !.scaler = p.scaler]
    IN  IF p.raised # NoError
        THEN [self |-> s1, raised |-> p.raised, prep |-> p, passes |-> {}, result |-> None]
        ELSE
        LET s2 == [s1 EXCEPT !.model = model_eval(s1.model)]
            made == IF hours_ahead > 0 THEN {forward_pass(s2.model, "forecast")} ELSE {}
            final == current_sequence(last_sequence(p.X), hours_ahead + 1)
            fe == IF hours_ahead > 0
                  THEN HybridLSTM_forward_error(self.model, 1, last_sequence_width(p), FALSE)
                  ELSE NoError
            ie == inverse_transform_error(s2.scaler, hours_ahead)
        IN  IF fe # NoError
            THEN [self |-> s2, raised |-> fe, prep |-> p, passes |-> {}, result |-> None]
            ELSE IF ie # NoError
            THEN [self |-> s2, raised |-> ie, prep |-> p, passes |-> made, result |-> None]
            ELSE [self |-> s2, raised |-> NoError, prep |-> p, passes |-> made,
                  result |-> [kind |-> "forecast",
                              hours_ahead |-> hours_ahead,
                              from_table |-> p.n_windows > 0,
                              window_length |-> Len(final),
                              synthetic |-> SubSeq(final,
                                                   Len(final) - Min(hours_ahead, Len(final)) + 1,
                                                   Len(final)),
                              predictions |-> inverse_transform(s2.scaler, outputs),
                              rescaled_with |-> s2.scaler,
                              confidence_interval |->
                                  calculate_confidence_interval(
                                      inverse_transform(s2.scaler, outputs)),
                              model_type |-> IF self.quantum_enabled THEN "quantum_lstm"
                                             ELSE "classical_lstm"]]

-----------------------------------------------------------------------------
(* QuantumLSTMForecaster.benchmark_vs_classical *)

\* one pass of the loop "for model_type in ['classical', 'quantum']": the
\* model it builds, trains for BenchmarkSteps steps on X_test[:50] and
\* evaluates
benchmark_model(model_type, data, sc, n_windows, width, available, env) ==
    LET c == HybridLSTM_init(width, model_type = "quantum", available, env)
        stepped == [model_train(c.model) EXCEPT
                       !.weights = [learned_from |->
                                       [table |-> data, scaler |-> sc,
                                        first |-> 1, last |-> Min(50, n_windows)],
                                    steps |-> BenchmarkSteps]]
    IN  IF c.raised # NoError THEN [raised |-> c.raised, model |-> None, passes |-> {}]
        ELSE [raised |-> NoError,
              model  |-> model_eval(stepped),
              passes |-> {forward_pass(model_train(c.model), "gradient_step"),
                          forward_pass(model_eval(stepped), "metric")}]

\* The values the construction of a layer draws from torch's global random
\* generator: the weights and the bias of its nn.Linear, when it builds one
layer_draws(l) ==
    IF l.classical_layer THEN l.input_size * l.input_size + l.input_size ELSE 0

\* The values HybridLSTM.__init__ draws from the generator: the layer's,
\* then those of the two LSTM layers (weight_ih, weight_hh, bias_ih, bias_hh
\* of four gates each) and of fc
parameter_draws(m) ==
    layer_draws(m.quantum_layer)
    + 4 * m.hidden_size * (m.input_size + m.hidden_size + 2)
    + 4 * m.hidden_size * (m.hidden_size + m.hidden_size + 2)
    + m.hidden_size + 1

\* (mutant) the benchmark keeps the quantum model it trained in self.model
benchmark_vs_classical_keeps_model(self, p, data, available, env) ==
    LET s1 == [self EXCEPT !.scaler = p.scaler]
        qu == benchmark_model("quantum", data, p.scaler, p.n_windows, p.width,
                              available, env)
    IN  IF p.raised # NoError
        THEN [self |-> s1, raised |-> p.raised, prep |-> p, passes |-> {}, result |-> None]
        ELSE IF p.n_windows = 0
        THEN [self |-> s1, raised |-> ErrIndex, prep |-> p, passes |-> {}, result |-> None]
        ELSE IF qu.raised # NoError
        THEN [self |-> s1, raised |-> qu.raised, prep |-> p, passes |-> {}, result |-> None]
        ELSE [self |-> [s1 EXCEPT !.model = qu.model], raised |-> NoError, prep |-> p,
              passes |-> qu.passes,
              result |-> [kind |-> "benchmark", classical_lstm |-> qu.model,
                          quantum_lstm |-> qu.model]]

\* benchmark_vs_classical, p being what its prepare_data(test_data) call did
\* (line 344).  No seed is set between the two constructions: lstm_drawn_at
\* is how many values the generator has given, since the call began, when
\* the LSTM and fc weights of each model are drawn.
benchmark_vs_classical(self, p, data, available, env) ==
    LET s1 == [self EXCEPT !.scaler = p.scaler]
    IN  IF p.raised # NoError
        THEN [self |-> s1, raised |-> p.raised, prep |-> p, passes |-> {}, result |-> None]
        ELSE IF p.n_windows = 0
        THEN [self |-> s1, raised |-> ErrIndex, prep |-> p, passes |-> {}, result |-> None]
        ELSE
        LET cl == benchmark_model("classical", data, p.scaler, p.n_windows, p.width,
                                  available, env)
            qu == benchmark_model("quantum", data, p.scaler, p.n_windows, p.width,
                                  available, env)
        IN  IF cl.raised # NoError
            THEN [self |-> s1, raised |-> cl.raised, prep |-> p, passes |-> {}, result |-> None]
            ELSE IF qu.raised # NoError
            THEN [self |-> s1, raised |-> qu.raised, prep |-> p, passes |-> {}, result |-> None]
            ELSE [self |-> s1, raised |-> NoError, prep |-> p,
                  passes |-> cl.passes \cup qu.passes,
                  result |-> [kind |-> "benchmark",
                              classical_lstm |-> cl.model,
                              quantum_lstm |-> qu.model,
                              lstm_drawn_at |->
                                  [classical |-> layer_draws(cl.model.quantum_layer),
                                   quantum |-> parameter_draws(cl.model)
                                               + layer_draws(qu.model.quantum_layer)]]]

-----------------------------------------------------------------------------
(* The forecaster as a state machine *)

Self ==
    [quantum_enabled |-> quantum_enabled, scaler |-> scaler, model |-> model,
     is_trained |-> is_trained]

\* What the call record keeps of a prepare_data invocation: everything but
\* the windows themselves, which are prepare_data of scaler_before and the
\* call's table
Kept(p) ==
    [invoked |-> p.invoked, raised |-> p.raised, fitted_now |-> p.fitted_now,
     scaler_before |-> p.scaler_before, n_windows |-> p.n_windows]

NoCall == [op |-> "none", data |-> None, arg |-> 0, was_trained |-> FALSE,
           raised |-> NoError, prep |-> Kept(NotInvoked), passes |-> {}, result |-> None]

\* the effect of a call that ended as r on the forecaster and on the history
Effect(op, data, arg, outcome) ==
    \E r \in {outcome} :
    /\ scaler' = r.self.scaler
    /\ model' = r.self.model
    /\ is_trained' = r.self.is_trained
    /\ call' = [op |-> op, data |-> data, arg |-> arg, was_trained |-> is_trained,
                raised |-> r.raised, prep |-> Kept(r.prep), passes |-> r.passes,
                result |-> r.result]
    /\ train_returned' = (train_returned \/ (op = "train" /\ r.raised = NoError))
    /\ prepared_before' = (prepared_before \/ r.prep.invoked)
    /\ UNCHANGED <<QUANTUM_AVAILABLE, quantum_enabled, layer_vars, service_vars,
                   encoder_vars>>

\* a server thread that is handling no request
IdleThread == [pc |-> "idle", df |-> None, scaled_with |-> None, mine |-> FALSE]

\* QuantumLSTMForecaster.__init__ in a process where the qiskit import did
\* or did not succeed
Init ==
    /\ QUANTUM_AVAILABLE \in BOOLEAN
    /\ \E arg \in BOOLEAN : quantum_enabled = (arg /\ QUANTUM_AVAILABLE)
    /\ scaler = None
    /\ model = None
    /\ is_trained = FALSE
    /\ call = NoCall
    /\ train_returned = FALSE
    /\ prepared_before = FALSE
    /\ layer = None
    /\ ctor = None
    /\ fwd = None
    /\ ci = None
    /\ response = None
    /\ threads = [t \in 1 .. MaxThreads |-> IdleThread]
    /\ encoder = None
    /\ encoded = None

Train ==
    \E data \in Tables :
        \E p \in {prepare_data(Self, data)} :
        \E epochs \in 0 .. MaxEpochs, env \in ProcessEnvs, empty_batch_raises \in BOOLEAN :
            Effect("train", data, epochs,
                   train(Self, p, data, epochs, QUANTUM_AVAILABLE, env, empty_batch_raises))

Predict ==
    \E data \in Tables :
        \E p \in {prepare_data(Self, data)} :
        \E hours_ahead \in 0 .. MaxHours :
        \E outputs \in ModelOutputs(hours_ahead) :
            Effect("predict", data, hours_ahead,
                   predict(Self, p, data, hours_ahead, outputs))

PrepareData ==
    \E data \in Tables :
        \E p \in {prepare_data(Self, data)} :
            Effect("prepare_data", data, 0,
                   [self |-> [Self EXCEPT !.scaler = p.scaler], raised |-> p.raised,
                    prep |-> p, passes |-> {}, result |-> None])

Benchmark ==
    \E data \in Tables :
        \E p \in {prepare_data(Self, data)} :
        \E env \in ProcessEnvs :
            Effect("benchmark_vs_classical", data, 0,
                   benchmark_vs_classical(Self, p, data, QUANTUM_AVAILABLE, env))

Next == Train \/ Predict \/ PrepareData \/ Benchmark

Spec == Init /\ [][Next]_vars

-----------------------------------------------------------------------------
(* The QuantumVariationalLayer as a state machine *)

InputSizes == {1, MaxQubits, 6} \cup (2 * MaxQubits .. 2 * MaxQubits + MaxExtraWidth)

\* the input row generated from v: input_size distinct channel values
Row(v, input_size) == [j \in 1 .. input_size |-> 10 * v + j]

\* torch.zeros(1, input_size)[0], the all-zeros sample of the layer's tests
ZeroSample(input_size) == [j \in 1 .. input_size |-> 0]

\* the samples a batch is made of
Samples(input_size) ==
    {Row(v, input_size) : v \in 0 .. MaxCell} \cup {ZeroSample(input_size)}

Batches(input_size) ==
    UNION { [1 .. b -> Samples(input_size)] : b \in 0 .. MaxBatch }

\* layer = QuantumVariationalLayer(input_size, quantum_enabled_arg): when the
\* constructor raises, no layer comes to exist
Construct ==
    \E input_size \in InputSizes, quantum_enabled_arg \in BOOLEAN, env \in Envs :
        \E r \in {QuantumVariationalLayer_init(input_size, quantum_enabled_arg,
                                               QUANTUM_AVAILABLE, env)} :
            /\ layer' = r.layer
            /\ ctor' = [input_size |-> input_size,
                        quantum_enabled_arg |-> quantum_enabled_arg,
                        binding_tried |-> quantum_enabled_arg /\ QUANTUM_AVAILABLE,
                        binding_raised |-> quantum_enabled_arg /\ QUANTUM_AVAILABLE
                                           /\ binding_raised(env),
                        raised |-> r.raised]
            /\ fwd' = None
            /\ UNCHANGED <<forecaster_vars, service_vars, encoder_vars>>

\* layer(x) on a batch x, circuit execution raising for the samples in fails
Forward ==
    /\ layer # None
    /\ \E x \in Batches(layer.input_size) :
        \E fails \in SUBSET (1 .. Len(x)) :
            \E r \in {forward(layer, x, fails)} :
                /\ fwd' = [x |-> x, fails |-> fails, raised |-> r.raised,
                           executed |-> r.executed, output |-> r.output]
                /\ UNCHANGED <<layer, ctor, forecaster_vars, service_vars, encoder_vars>>

NextLayer == Construct \/ Forward

SpecLayer == Init /\ [][NextLayer]_vars

-----------------------------------------------------------------------------
(* The HybridLSTM as a state machine *)

\* the input_size a HybridLSTM is constructed with
EncoderWidths == {1, 2, MaxQubits, 6}

\* x of shape [N, T, F]: N in 1..MaxSamples, T in 1..MaxSteps, F = input_size
EncoderBatches(input_size) ==
    UNION { [1 .. n -> [1 .. t -> {Row(0, input_size), ZeroSample(input_size)}]] :
            n \in 1 .. MaxSamples, t \in 1 .. MaxSteps }

\* encoder = HybridLSTM(input_size, 64, quantum_enabled=quantum_enabled_arg)
EncoderConstruct ==
    \E input_size \in EncoderWidths, quantum_enabled_arg \in BOOLEAN, env \in ProcessEnvs :
        \E c \in {HybridLSTM_init(input_size, quantum_enabled_arg, QUANTUM_AVAILABLE, env)} :
            /\ encoder' = c.model
            /\ encoded' = None
            /\ UNCHANGED <<forecaster_vars, layer_vars, service_vars>>

\* encoder(x), circuit execution raising for the (sample, timestep) pairs in
\* fails (none or one of them)
EncoderForward ==
    /\ encoder # None
    /\ \E x \in EncoderBatches(encoder.input_size) :
        \E fails \in {{}} \cup {{q} : q \in (1 .. Len(x)) \X (1 .. Len(x[1]))} :
            \E r \in {HybridLSTM_forward(encoder, x, fails)} :
                /\ encoded' = [x |-> x, fails |-> fails, invoked |-> r.invoked,
                               raised |-> r.raised, quantum_enhanced |-> r.quantum_enhanced]
                /\ UNCHANGED <<encoder, forecaster_vars, layer_vars, service_vars>>

NextEncoder == EncoderConstruct \/ EncoderForward

SpecEncoder == Init /\ [][NextEncoder]_vars

-----------------------------------------------------------------------------
(* The Flask service: generate_forecast and run_benchmark on the global   *)
(* forecaster                                                              *)

\* def train(self, training_data, epochs: int = 50)
DefaultEpochs == 50

\* data.get('hours_ahead', 24)
DefaultHours == 24

\* The body of a POST request: absent (or not JSON), the JSON value null,
\* or a JSON object with some of the keys historical_data, test_data (a
\* list of records, which pd.DataFrame makes a table) and hours_ahead.
\* The tables sent are the one without a feature column, and the shortest
\* and the longest of the others; hours_ahead is sent with the longest.
RequestTables ==
    {t \in Tables : t.nrows \in {3, sequence_length, sequence_length + MaxExtraRows}}

Bodies ==
    {[kind |-> k, keys |-> {}, table |-> None, hours |-> 0] : k \in {"none", "null", "object"}}
    \cup {[kind |-> "object", keys |-> {"hours_ahead"}, table |-> None, hours |-> 1]}
    \cup {[kind |-> "object", keys |-> {k}, table |-> t, hours |-> 0] :
             k \in {"historical_data", "test_data"}, t \in RequestTables}
    \cup {[kind |-> "object", keys |-> {"historical_data", "hours_ahead"},
           table |-> [cols |-> FeatureColumns, nrows |-> sequence_length + MaxExtraRows],
           hours |-> h] : h \in 0 .. MaxHours}

\* data = request.get_json() followed by "'key' not in data": Flask raises
\* on a body that is not JSON, or (silent builds) returns None, on which
\* the membership test raises TypeError, as it does on the JSON value null
missing_key_check(body, key) ==
    IF body.kind # "object" THEN "raises"
    ELSE IF key \notin body.keys THEN "missing"
    ELSE "present"

\* jsonify({'error': ...}), status
error_response(status, message) == [status |-> status, body |-> [error |-> message]]

\* the record of a method call made by a handler
MethodCall(op, data, arg, was_trained, r) ==
    [op |-> op, data |-> data, arg |-> arg, was_trained |-> was_trained,
     raised |-> r.raised, prep |-> Kept(r.prep), passes |-> r.passes, result |-> r.result]

\* (mutant) every request trains
needs_training_always(self) == TRUE

\* the guard of line 424: if not forecaster.is_trained
needs_training(self) == ~self.is_trained

\* generate_forecast: the response, the forecaster it leaves and the
\* method calls it made; p_train and p_predict are what the prepare_data
\* calls of its train (line 216) and of its predict (line 281) do
generate_forecast(self, body, p_train, p_predict, available, env, ebr, outputs) ==
    LET check == missing_key_check(body, "historical_data") IN
    IF check = "raises"
    THEN [self |-> self, calls |-> <<>>,
          response |-> error_response(500, "An internal error has occurred.")]
    ELSE IF check = "missing"
    THEN [self |-> self, calls |-> <<>>,
          response |-> error_response(400, "historical_data required")]
    ELSE
    LET df == body.table
        hours_ahead == IF "hours_ahead" \in body.keys THEN body.hours ELSE DefaultHours
        t == IF needs_training(self)
             THEN train(self, p_train, df, DefaultEpochs, available, env, ebr)
             ELSE [self |-> self, raised |-> NoError]
        tcalls == IF needs_training(self)
                  THEN <<MethodCall("train", df, DefaultEpochs, self.is_trained, t)>>
                  ELSE <<>>
    IN  IF t.raised # NoError
        THEN [self |-> t.self, calls |-> tcalls,
              response |-> error_response(500, "An internal error has occurred.")]
        ELSE
        LET f == predict(t.self, p_predict, df, hours_ahead,
                         [k \in 1 .. hours_ahead |-> outputs[k]])
            calls == Append(tcalls, MethodCall("predict", df, hours_ahead,
                                               t.self.is_trained, f))
        IN  IF f.raised # NoError
            THEN [self |-> f.self, calls |-> calls,
                  response |-> error_response(500, "An internal error has occurred.")]
            ELSE [self |-> f.self, calls |-> calls,
                  response |-> [status |-> 200,
                                body |-> [success |-> TRUE, forecast |-> f.result]]]

\* run_benchmark, p being what the prepare_data call of its
\* benchmark_vs_classical does
run_benchmark(self, body, p, available, env) ==
    LET check == missing_key_check(body, "test_data") IN
    IF check = "raises"
    THEN [self |-> self, calls |-> <<>>,
          response |-> error_response(500, "An internal error has occurred.")]
    ELSE IF check = "missing"
    THEN [self |-> self, calls |-> <<>>,
          response |-> error_response(400, "test_data required")]
    ELSE
    LET df == body.table
        b == benchmark_vs_classical(self, p, df, available, env)
        calls == <<MethodCall("benchmark_vs_classical", df, 0, self.is_trained, b)>>
    IN  IF b.raised # NoError
        THEN [self |-> b.self, calls |-> calls,
              response |-> error_response(500, "An internal error has occurred.")]
        ELSE [self |-> b.self, calls |-> calls,
              response |-> [status |-> 200,
                            body |-> [success |-> TRUE, benchmark_results |-> b.result]]]

\* a request handled from start to end: what it leaves in the forecaster,
\* the response sent
Handled(endpoint, body, r) ==
    /\ scaler' = r.self.scaler
    /\ model' = r.self.model
    /\ is_trained' = r.self.is_trained
    /\ call' = IF r.calls = <<>> THEN call ELSE r.calls[Len(r.calls)]
    /\ train_returned' =
          (train_returned \/ \E i \in 1 .. Len(r.calls) :
                                r.calls[i].op = "train" /\ r.calls[i].raised = NoError)
    /\ prepared_before' =
          (prepared_before \/ \E i \in 1 .. Len(r.calls) : r.calls[i].prep.invoked)
    /\ response' = [endpoint |-> endpoint, request |-> body,
                    status |-> r.response.status, body |-> r.response.body,
                    unchanged |-> (r.self = Self),
                    trained_before |-> is_trained,
                    calls |-> [i \in 1 .. Len(r.calls) |-> r.calls[i].op]]
    /\ UNCHANGED <<QUANTUM_AVAILABLE, quantum_enabled, layer_vars, ci, threads,
                   encoder_vars>>

\* prepare_data on the table of a body, when it has one
prepared(self, body) ==
    IF body.table = None THEN NotInvoked ELSE prepare_data(self, body.table)

ForecastRequest ==
    \E body \in Bodies :
    \E p_train \in {prepared(Self, body)} :
    \E p_predict \in {IF is_trained THEN p_train
                       ELSE prepared([Self EXCEPT !.scaler = p_train.scaler], body)} :
    \E env \in ProcessEnvs, empty_batch_raises \in BOOLEAN :
    \E outputs \in ModelOutputs(DefaultHours) :
    \E r \in {generate_forecast(Self, body, p_train, p_predict, QUANTUM_AVAILABLE, env,
                                 empty_batch_raises, outputs)} :
        Handled("/forecast", body, r)

BenchmarkRequest ==
    \E body \in Bodies :
    \E p \in {prepared(Self, body)} :
    \E env \in ProcessEnvs :
    \E r \in {run_benchmark(Self, body, p, QUANTUM_AVAILABLE, env)} :
        Handled("/benchmark", body, r)

NextHttp == ForecastRequest \/ BenchmarkRequest

SpecHttp == Init /\ [][NextHttp]_vars

-----------------------------------------------------------------------------
(* /forecast requests handled concurrently: app.run serves each request in *)
(* a thread of its own, all of them on the one global forecaster.  A step   *)
(* is a statement (or a group of statements) of generate_forecast, train,  *)
(* prepare_data and predict run by one thread.                             *)

\* what the steps of a thread leave alone
sequential_vars == <<QUANTUM_AVAILABLE, quantum_enabled, call, train_returned,
                     prepared_before, layer_vars, ci, encoder_vars>>

\* the tables sent: all feature columns, more than sequence_length rows
ConcurrentTables == {t \in Tables : t.cols = FeatureColumns /\ t.nrows > sequence_length}

\* thread t moves to pc, with the changes ch of its record
Goto(t, pc, ch) ==
    threads' = [threads EXCEPT ![t] = [f \in DOMAIN threads[t] |->
                    IF f = "pc" THEN pc
                    ELSE IF f \in DOMAIN ch THEN ch[f] ELSE threads[t][f]]]

\* thread t sends its response and is idle again
Respond(t, status, forecast_from) ==
    /\ threads' = [threads EXCEPT ![t] = IdleThread]
    /\ response' = [endpoint |-> "/forecast", thread |-> t, status |-> status,
                    forecast_from |-> forecast_from]

\* lines 413-421: a request with historical_data arrives
Arrive(t) ==
    /\ threads[t].pc = "idle"
    /\ UNCHANGED sequential_vars
    /\ \E df \in ConcurrentTables : Goto(t, "check_trained", [df |-> df])
    /\ UNCHANGED <<scaler, model, is_trained, response>>

\* line 424: if not forecaster.is_trained
CheckTrained(t) ==
    /\ threads[t].pc = "check_trained"
    /\ UNCHANGED sequential_vars
    /\ Goto(t, IF is_trained THEN "predict_check" ELSE "scaler_check", <<>>)
    /\ UNCHANGED <<scaler, model, is_trained, response>>

\* train, line 216 -> prepare_data, line 197: if self.scaler is None
ScalerCheck(t) ==
    /\ threads[t].pc = "scaler_check"
    /\ UNCHANGED sequential_vars
    /\ Goto(t, IF scaler = None THEN "scaler_new" ELSE "scaler_transform", <<>>)
    /\ UNCHANGED <<scaler, model, is_trained, response>>

\* line 198: self.scaler = StandardScaler()
ScalerNew(t) ==
    /\ threads[t].pc = "scaler_new"
    /\ UNCHANGED sequential_vars
    /\ scaler' = Unfitted
    /\ Goto(t, "scaler_fit", <<>>)
    /\ UNCHANGED <<model, is_trained, response>>

\* line 199: self.scaler.fit_transform(features), on the scaler self.scaler
\* holds now
ScalerFit(t) ==
    /\ threads[t].pc = "scaler_fit"
    /\ UNCHANGED sequential_vars
    /\ \E fitted \in {Fit(Values(threads[t].df, features), threads[t].df.nrows,
                            Len(features))} :
          /\ scaler' = fitted
          /\ Goto(t, "model_new", [scaled_with |-> fitted])
    /\ UNCHANGED <<model, is_trained, response>>

\* line 201 (in train): self.scaler.transform(features); the scaler another
\* thread has stored and not fitted yet raises NotFittedError
ScalerTransform(t) ==
    /\ threads[t].pc = "scaler_transform"
    /\ UNCHANGED sequential_vars
    /\ IF scaler.fitted
       THEN Goto(t, "model_new", [scaled_with |-> scaler]) /\ UNCHANGED response
       ELSE Respond(t, 500, None)
    /\ UNCHANGED <<scaler, model, is_trained>>

\* lines 219-234: self.model = HybridLSTM(...); the optimizer is made for
\* the parameters of this model
ModelNew(t) ==
    /\ threads[t].pc = "model_new"
    /\ UNCHANGED sequential_vars
    /\ \E env \in ProcessEnvs :
       \E c \in {HybridLSTM_init(Len(features), quantum_enabled, QUANTUM_AVAILABLE, env)} :
          IF c.raised # NoError
          THEN Respond(t, 500, None) /\ UNCHANGED model
          ELSE /\ model' = c.model
               /\ threads' = [u \in DOMAIN threads |->
                                 IF u = t
                                 THEN [threads[t] EXCEPT !.pc = "training_loop", !.mine = TRUE]
                                 ELSE [threads[u] EXCEPT !.mine = FALSE]]
               /\ UNCHANGED response
    /\ UNCHANGED <<scaler, is_trained>>

\* lines 240-261: the loop runs self.model, the model self.model holds now;
\* the optimizer steps the parameters of the model this thread made
TrainingLoop(t) ==
    /\ threads[t].pc = "training_loop"
    /\ UNCHANGED sequential_vars
    /\ model' = IF threads[t].mine
                THEN training_loop(model, threads[t].df, threads[t].scaled_with,
                                   num_sequences(threads[t].df.nrows), Len(features),
                                   DefaultEpochs, FALSE).model
                ELSE [model EXCEPT !.training = FALSE]
    /\ Goto(t, "set_trained", <<>>)
    /\ UNCHANGED <<scaler, is_trained, response>>

\* line 263: self.is_trained = True
SetTrained(t) ==
    /\ threads[t].pc = "set_trained"
    /\ UNCHANGED sequential_vars
    /\ is_trained' = TRUE
    /\ Goto(t, "predict_check", <<>>)
    /\ UNCHANGED <<scaler, model, response>>

\* predict, line 275: if not self.is_trained
PredictCheck(t) ==
    /\ threads[t].pc = "predict_check"
    /\ UNCHANGED sequential_vars
    /\ IF not_trained(Self)
       THEN Respond(t, 500, None)
       ELSE Goto(t, "predict_prepare", <<>>) /\ UNCHANGED response
    /\ UNCHANGED <<scaler, model, is_trained>>

\* line 281 -> prepare_data, lines 197-201 (the scaler is not None here)
PredictPrepare(t) ==
    /\ threads[t].pc = "predict_prepare"
    /\ UNCHANGED sequential_vars
    /\ IF scaler.fitted
       THEN Goto(t, "predict_forward", [scaled_with |-> scaler]) /\ UNCHANGED response
       ELSE Respond(t, 500, None)
    /\ UNCHANGED <<scaler, model, is_trained>>

\* lines 286-322 and 431-434: the forecast is made by the model self.model
\* holds now, from a window normalized by scaled_with
PredictForward(t) ==
    /\ threads[t].pc = "predict_forward"
    /\ UNCHANGED sequential_vars
    /\ model' = [model EXCEPT !.training = FALSE]
    /\ Respond(t, 200, [weights |-> model.weights, scaled_with |-> threads[t].scaled_with])
    /\ UNCHANGED <<scaler, is_trained>>

Step(t) ==
    \/ Arrive(t) \/ CheckTrained(t)
    \/ ScalerCheck(t) \/ ScalerNew(t) \/ ScalerFit(t) \/ ScalerTransform(t)
    \/ ModelNew(t) \/ TrainingLoop(t) \/ SetTrained(t)
    \/ PredictCheck(t) \/ PredictPrepare(t) \/ PredictForward(t)

NextConcurrent == \E t \in 1 .. MaxThreads : Step(t)

SpecConcurrent == Init /\ [][NextConcurrent]_vars

-----------------------------------------------------------------------------
(* _calculate_confidence_interval as a state machine *)

PredictionArrays ==
    UNION { [1 .. n -> {Number(u) : u \in (0 - MaxPrediction) .. MaxPrediction}] :
            n \in 0 .. MaxPredictions }

\* self._calculate_confidence_interval(predictions)
CalculateConfidenceInterval ==
    \E predictions \in PredictionArrays :
        /\ ci' = [predictions |-> predictions,
                  interval |-> calculate_confidence_interval(predictions)]
        /\ UNCHANGED <<forecaster_vars, layer_vars, response, threads, encoder_vars>>

NextInterval == CalculateConfidenceInterval

SpecInterval == Init /\ [][NextInterval]_vars

-----------------------------------------------------------------------------
(* Properties of the forecaster *)

\* a step that is a call of op on the forecaster
Called(op) == call' # call /\ call'.op = op

\* C1: predict on a forecaster on which no train call has completed raises
\* the not-trained error before any computation: prepare_data is not
\* invoked and scaler, model and is_trained stay as they were.
C1_PredictBeforeTrainCompleted ==
    [][ (Called("predict") /\ ~train_returned)
        => /\ call'.raised = ErrNotTrained
           /\ ~call'.prep.invoked
           /\ UNCHANGED <<scaler, model, is_trained>> ]_vars

\* C2: is_trained is false at construction, becomes true exactly when a
\* train call returns normally, and never becomes false again.
C2_OneWayLifecycle ==
    /\ ~is_trained
    /\ [][ /\ (is_trained => is_trained')
           /\ (~is_trained /\ is_trained') => (call'.op = "train" /\ call'.raised = NoError)
           /\ (Called("train") /\ call'.raised = NoError) => is_trained' ]_vars

\* the scaler a fit on the table data gives
FitOf(data) ==
    Fit(Values(data, feature_cols(data)), data.nrows, Len(feature_cols(data)))

\* C3 as stated: after train returns on an already trained forecaster, the
\* model parameters and the normalization state are those learned from that
\* call's table.
C3_RetrainReplacesAll ==
    [][ (Called("train") /\ train_returned /\ call'.raised = NoError)
        => /\ model'.weights.learned_from # None
           /\ model'.weights.learned_from.table = call'.data
           /\ scaler' = FitOf(call'.data) ]_vars

\* C3 amended: after train returns on an already trained forecaster, the
\* model is a new one whose parameters were learned from that call's table
\* as normalized by the stored normalization state, and the normalization
\* state is the one that was stored before the call.
C3_RetrainReplacesModelOnly ==
    [][ (Called("train") /\ is_trained /\ call'.raised = NoError)
        => /\ model'.weights.learned_from # None
           /\ model'.weights.learned_from.table = call'.data
           /\ model'.weights.learned_from.scaler = scaler'
           /\ scaler' = scaler ]_vars

C3_Witness ==
    /\ call.op = "train" /\ call.was_trained /\ call.raised = NoError
    /\ model.weights.learned_from.table = call.data
    /\ scaler # FitOf(call.data)

\* C4 as stated: the normalization state is set only by the first
\* prepare_data invocation on the forecaster; a predict that reaches
\* prepare_data normalizes with the state the current model was trained with.
C4_FitOnlyByFirstInvocation ==
    [][ /\ (scaler' # scaler) => ~prepared_before
        /\ (Called("predict") /\ call'.prep.invoked /\ model.weights.learned_from # None)
              => /\ call'.prep.scaler_before = model.weights.learned_from.scaler
                 /\ scaler' = scaler ]_vars

\* C4 amended: the normalization state is set only by the first prepare_data
\* invocation that gets past the feature-column check, the only one that
\* finds none stored; a predict that reaches prepare_data normalizes with the
\* state the current model was trained with.
C4_FitOnlyWhenNoneStored ==
    [][ /\ (scaler' # scaler)
              => (scaler = None /\ call'.prep.invoked /\ call'.prep.raised # ErrSchema)
        /\ (call' # call /\ call'.prep.invoked /\ call'.prep.raised # ErrSchema)
              => scaler' # None
        /\ (Called("predict") /\ call'.prep.invoked /\ model.weights.learned_from # None)
              => /\ call'.prep.scaler_before = model.weights.learned_from.scaler
                 /\ scaler' = scaler ]_vars

C4_Witness ==
    /\ call.op = "predict" /\ call.raised = NoError
    /\ call.prep.invoked /\ call.prep.scaler_before = scaler
    /\ model.weights.learned_from # None
    /\ model.weights.learned_from.scaler = scaler

\* the parameters of the forecaster's model (its mode is no parameter)
Parameters(m) == IF m = None THEN None ELSE [m EXCEPT !.training = TRUE]

\* C5 as stated: model parameters and normalization state change only
\* inside a train call.
C5_ChangedOnlyByTrain ==
    [][ (Parameters(model') # Parameters(model) \/ scaler' # scaler)
        => call'.op = "train" ]_vars

\* C5 amended: the model parameters change only inside a train call; the
\* normalization state changes only in a call that reaches prepare_data
\* while none is stored; once one is stored, predict, benchmark_vs_classical
\* and a direct prepare_data call leave both unchanged.
C5_ChangedOnlyByTrainOrFirstFit ==
    [][ /\ (Parameters(model') # Parameters(model)) => call'.op = "train"
        /\ (scaler' # scaler) => (scaler = None /\ call'.prep.invoked)
        /\ (scaler # None /\ call'.op # "train")
              => (scaler' = scaler /\ Parameters(model') = Parameters(model)) ]_vars

C5_Witness ==
    /\ call.op = "benchmark_vs_classical" /\ call.raised = NoError
    /\ call.prep.scaler_before = scaler
    /\ model # None

\* row i of the table as the scaler s normalizes it, column by column
NormalizedRow(s, data, i) ==
    [j \in 1 .. Len(feature_cols(data)) |->
        TransformCell(s, j, Cell(data, i, feature_cols(data)[j]))]

\* what the prepare_data invocation of the last call returned
Returned == prepare_data([scaler |-> call.prep.scaler_before], call.data)

\* C6: for a table of M rows prepare_data yields exactly max(M - L, 0)
\* windows; window i is the normalized rows i .. i+L-1 in their order, each
\* of the width of the selected features, and target i is the normalized
\* first selected feature of row i+L.
C6_WindowsAndTargets ==
    (call.prep.invoked /\ call.prep.raised = NoError)
    => LET M == call.data.nrows
           L == sequence_length
           N == IF M - L > 0 THEN M - L ELSE 0
           r == Returned
       IN  /\ call.prep.n_windows = N
           /\ Len(r.X) = N
           /\ Len(r.y) = N
           /\ \A i \in 1 .. N :
                /\ Len(r.X[i]) = L
                /\ \A k \in 1 .. L :
                      r.X[i][k] = NormalizedRow(r.scaler, call.data, i + k - 1)
                /\ r.y[i] = NormalizedRow(r.scaler, call.data, i + L)[1]

C6_Witness ==
    /\ call.op = "prepare_data" /\ call.raised = NoError
    /\ call.prep.n_windows = 2
    /\ Len(Returned.X[2][1]) = 4

\* C7: prepare_data raises whenever the table has no more than
\* sequence_length rows, and never returns an empty window set to train or
\* predict.
C7_InsufficientDataRaises ==
    /\ (call.prep.invoked /\ call.data.nrows <= sequence_length)
          => call.prep.raised # NoError
    /\ (call.op \in {"train", "predict"} /\ call.prep.invoked /\ call.prep.raised = NoError)
          => call.prep.n_windows > 0

\* C8: prepare_data on a table with none of the configured feature columns
\* raises the schema error and leaves the normalization state as it was; on
\* a table with at least one of them it does not raise that error.
C8_SchemaError ==
    call.prep.invoked
    => IF call.data.cols \cap FeatureColumns = {}
       THEN /\ call.prep.raised = ErrSchema
            /\ call.raised = ErrSchema
            /\ ~call.prep.fitted_now
            /\ scaler = call.prep.scaler_before
       ELSE call.prep.raised # ErrSchema

C8_Witness ==
    /\ call.op = "prepare_data" /\ call.raised = ErrSchema
    /\ call.data.cols \cap FeatureColumns = {}
    /\ scaler = None

-----------------------------------------------------------------------------
(* Properties of the QuantumVariationalLayer *)

\* the per-sample classical fallback of an input row
FallbackOf(row, nq) == [j \in 1 .. nq |-> [fn |-> "tanh", of |-> row[j], channel |-> j]]

\* C9: on the quantum path forward does not raise when the execution of a
\* sample raises; the output row of a failed sample is the classical
\* fallback of its input row, every other row is what it is when that
\* sample does not fail, and every output row k is computed from input row k.
C9_PerSampleFallback ==
    (fwd # None /\ layer.quantum_enabled)
    => LET nq == Min(MaxQubits, layer.input_size) IN
       /\ fwd.raised = NoError
       /\ Len(fwd.output) = Len(fwd.x)
       /\ \A i \in fwd.fails :
            /\ fwd.output[i] = FallbackOf(fwd.x[i], nq)
            /\ \A k \in (1 .. Len(fwd.x)) \ {i} :
                 fwd.output[k] = forward(layer, fwd.x, fwd.fails \ {i}).output[k]
       /\ \A k \in 1 .. Len(fwd.x) :
            \/ fwd.output[k] = FallbackOf(fwd.x[k], nq)
            \/ /\ k \in fwd.executed
               /\ \A j \in 1 .. nq :
                    fwd.output[k][j] = [fn |-> "expectation", channel |-> j,
                                        of |-> SubSeq(fwd.x[k], 1, 2 * nq)]

C9_Witness ==
    /\ fwd # None /\ layer.quantum_enabled
    /\ fwd.fails = {1}
    /\ 2 \in fwd.executed
    /\ fwd.raised = NoError

\* C10: the construction of a layer never raises, and when binding a backend
\* raised the layer is bound to the classical fallback.
C10_ConstructionNeverRaises ==
    ctor # None
    => /\ ctor.raised = NoError
       /\ layer # None
       /\ ctor.binding_raised => Backend(layer) = "ClassicalFallback"

\* C11: forward returns rows of the arity of its input rows on both paths;
\* the channels after the first min(4, input_size) appear unchanged at the
\* same position of the output.
C11_SameArityAndPassThrough ==
    fwd # None
    => \A i \in 1 .. Len(fwd.x) :
          /\ Len(fwd.output[i]) = Len(fwd.x[i])
          /\ \A j \in Min(MaxQubits, layer.input_size) + 1 .. Len(fwd.x[i]) :
                /\ fwd.output[i][j].fn = "identity"
                /\ fwd.output[i][j].of = fwd.x[i][j]

\* C12: for every input_size and for quantum_enabled True and False alike,
\* forward on a batch of B samples returns B rows of min(4, input_size)
\* channels.
C12_OutputShape ==
    fwd # None
    => /\ fwd.raised = NoError
       /\ Len(fwd.output) = Len(fwd.x)
       /\ \A i \in 1 .. Len(fwd.x) :
             Len(fwd.output[i]) = Min(MaxQubits, ctor.input_size)

\* C13: every output channel of forward lies strictly inside (-1, 1), on
\* the quantum path, on the classical path and on the per-sample fallback.
C13_OutputInsideOpenInterval ==
    fwd # None
    => \A i \in 1 .. Len(fwd.output) : \A j \in 1 .. Len(fwd.output[i]) :
          cell_ranges(fwd.output[i][j]) \subseteq {"inside"}

\* C25: on the quantum path every sample supplies exactly 2 * n_qubits
\* rotation angles, the first 2 * n_qubits scalars of its row, to a circuit
\* of exactly 2 * n_qubits parameters, for every input_size; the circuit is
\* then executed for every sample the backend does not fail on.
C25_AnglesMatchParameters ==
    (fwd # None /\ layer.quantum_enabled)
    => /\ layer.n_params = 2 * layer.n_qubits
       /\ \A i \in 1 .. Len(fwd.x) :
             /\ Len(params_values(layer, fwd.x[i])) = 2 * layer.n_qubits
             /\ params_values(layer, fwd.x[i]) = SubSeq(fwd.x[i], 1, 2 * layer.n_qubits)
             /\ (i \notin fwd.fails) => (i \in fwd.executed)

-----------------------------------------------------------------------------
(* Properties of predict and of the confidence interval *)

\* C14: on a trained forecaster, predict(table, h) on a table prepare_data
\* accepts, h >= 1, returns a result whose predictions, lower and upper
\* lists have h entries each, with hours_ahead = h and
\* lower[i] <= predictions[i] <= upper[i] at every index.
C14_PredictReturnsBand ==
    (/\ call.op = "predict" /\ call.was_trained /\ call.arg >= 1
     /\ call.prep.invoked /\ call.prep.raised = NoError)
    => /\ call.raised = NoError
       /\ call.result.hours_ahead = call.arg
       /\ Len(call.result.predictions) = call.arg
       /\ Len(call.result.confidence_interval.lower) = call.arg
       /\ Len(call.result.confidence_interval.upper) = call.arg
       /\ \A i \in 1 .. call.arg :
             LET b == call.result.confidence_interval
             IN  /\ ~Less(call.result.predictions[i], b.lower[i], b.std)
                 /\ ~Less(b.upper[i], call.result.predictions[i], b.std)

C16_BenchmarkRequiresTraining ==
    (call.op = "benchmark_vs_classical" /\ ~call.was_trained)
    => (call.raised = ErrNotTrained /\ call.result = None)

C22_DropoutOnlyInGradientPasses ==
    \A q \in call.passes :
        /\ q.purpose \in {"val_loss", "forecast", "metric"} => ~q.training
        /\ q.training => q.purpose = "gradient_step"

C22_Witness ==
    /\ call.op = "predict"
    /\ call.passes = {[purpose |-> "forecast", training |-> FALSE]}
    /\ model.weights.steps = 0

\* the window predict starts from, and the window it feeds to the model at
\* roll-forward step k
StartWindow == last_sequence(Returned.X)

WindowAt(k) == current_sequence(StartWindow, k)

\* a / sqrt(b) = c / sqrt(d) for two normalized values <<a, b>> and <<c, d>>
SameValue(x, y) == SignedSquare(x[1]) * y[2] = SignedSquare(y[1]) * x[2]

\* predict has returned a forecast of at least one hour
Forecast == call.op = "predict" /\ call.raised = NoError /\ call.arg >= 1

\* C23 as stated: at each roll-forward step the timestep appended to the
\* window has the new prediction as its first feature and every other
\* feature equal to its last observed value in the window; the window keeps
\* length sequence_length by dropping its oldest timestep.
C23_OtherFeaturesHeld ==
    Forecast
    => \A k \in 1 .. call.arg :
          LET prev == WindowAt(k)
              next == WindowAt(k + 1)
              L == sequence_length
          IN  /\ Len(next) = L
              /\ \A i \in 1 .. L - 1 : next[i] = prev[i + 1]
              /\ next[L][1] = [pred |-> k]
              /\ \A j \in 2 .. Len(next[L]) : SameValue(next[L][j], prev[L][j])

\* C23 amended: at each roll-forward step the timestep appended to the
\* window has the new prediction as its first feature and every other
\* feature equal to zero, the normalized value of that feature's mean; the
\* window keeps length sequence_length by dropping its oldest timestep.
C23_OtherFeaturesZero ==
    Forecast
    => /\ call.result.window_length = sequence_length
       /\ Len(call.result.synthetic) = Min(call.arg, sequence_length)
       /\ \A k \in 1 .. call.arg :
             LET prev == WindowAt(k)
                 next == WindowAt(k + 1)
                 L == sequence_length
             IN  /\ Len(next) = L
                 /\ \A i \in 1 .. L - 1 : next[i] = prev[i + 1]
                 /\ next[L][1] = [pred |-> k]
                 /\ \A j \in 2 .. Len(next[L]) : next[L][j] = Zero
                 /\ Len(next[L]) = Len(prev[L])
       /\ \A k \in 1 .. Len(call.result.synthetic) :
             call.result.synthetic[k]
                = WindowAt(call.arg + 1)[sequence_length - Len(call.result.synthetic) + k]

C23_Witness ==
    /\ Forecast /\ call.arg = 2 /\ call.result.from_table
    /\ call.result.synthetic = <<<<[pred |-> 1], Zero, Zero, Zero>>,
                                 <<[pred |-> 2], Zero, Zero, Zero>>>>
    /\ \E j \in 2 .. 4 : StartWindow[sequence_length][j][1] # 0

\* C24: predict starts from the most recent window of the table: for a
\* table of M > sequence_length rows the window is the last sequence_length
\* rows, so that the first forecast value is for the step after the last
\* row; predict never runs the model on a window that is not made of rows of
\* the table.
C24_StartsFromLastRows ==
    (call.op = "predict" /\ call.prep.invoked /\ call.prep.raised = NoError)
    => LET M == call.data.nrows
           L == sequence_length
       IN  /\ (M > L /\ call.arg >= 1)
                 => \A k \in 1 .. L :
                       StartWindow[k] = NormalizedRow(call.prep.scaler_before, call.data,
                                                      M - L + k)
           /\ (M <= L) => call.passes = {}

\* C26: the two models of the benchmark have the same architecture and the
\* same random initialization (their encoder weights are drawn from the same
\* state of the generator), are trained on the same windows for the same
\* number of steps, and differ only in whether the quantum path of the
\* variational layer is enabled.
C26_BenchmarkModelsDifferOnlyInQuantumPath ==
    (call.op = "benchmark_vs_classical" /\ call.raised = NoError)
    => LET c == call.result.classical_lstm
           q == call.result.quantum_lstm
       IN  /\ c.input_size = q.input_size /\ c.hidden_size = q.hidden_size
           /\ call.result.lstm_drawn_at.classical = call.result.lstm_drawn_at.quantum
           /\ c.weights = q.weights
           /\ c.weights.steps = BenchmarkSteps
           /\ c.weights.learned_from.table = call.data
           /\ ~c.quantum_layer.quantum_enabled
           /\ q.quantum_layer.quantum_enabled

\* C27: a train call that raises leaves the forecaster as it was before the
\* call: scaler, model and is_trained are unchanged.
C27_FailedTrainChangesNothing ==
    [][ (Called("train") /\ call'.raised # NoError)
        => UNCHANGED <<scaler, model, is_trained>> ]_vars

\* C29: after train has succeeded on a table with k of the four feature
\* columns, 1 <= k <= 4, predict on that same table returns a forecast: the
\* window fed to the model has the width the model was built with, and the
\* array given to the inverse normalization has as many columns as the
\* normalization state was fitted on.
C29_PredictAfterTrainOnSameTable ==
    (/\ call.op = "predict" /\ call.was_trained /\ call.arg >= 1
     /\ model.weights.learned_from # None
     /\ model.weights.learned_from.table = call.data)
    => /\ call.raised = NoError
       /\ call.result.kind = "forecast"
       /\ Len(StartWindow[1]) = model.input_size
       /\ dummy_columns = scaler.n_features

\* C30: in every HybridLSTM, built by train or by the benchmark, with or
\* without the quantum libraries, the model's quantum_enabled flag equals
\* its variational layer's: a model that routes its timesteps through the
\* layer never has the layer in classical mode.
C30_ModelAndLayerFlagsAgree ==
    /\ (model # None) => (model.quantum_enabled = model.quantum_layer.quantum_enabled)
    /\ (call.op = "benchmark_vs_classical" /\ call.raised = NoError)
          => \A m \in {call.result.classical_lstm, call.result.quantum_lstm} :
                m.quantum_enabled = m.quantum_layer.quantum_enabled

-----------------------------------------------------------------------------
(* Properties of the Flask service *)

\* the key an endpoint requires in the body
RequiredKey(endpoint) == IF endpoint = "/forecast" THEN "historical_data" ELSE "test_data"

\* the body of the last request has the key its endpoint requires
HasData == response.request.kind = "object"
           /\ RequiredKey(response.endpoint) \in response.request.keys

\* C17: a POST /forecast whose body does not provide historical_data, an
\* empty body included, is answered with status 400 and a body with the key
\* error, and leaves the global forecaster as it was; a POST /benchmark
\* without test_data is answered with status 400.
C17_MissingDataIs400 ==
    (response # None /\ ~HasData)
    => /\ response.status = 400
       /\ "error" \in DOMAIN response.body
       /\ response.calls = <<>>
       /\ response.unchanged

\* C18: a /forecast or /benchmark request whose table lacks every
\* configured feature column or has no more than sequence_length rows gets
\* a 4xx answer, never a 5xx one.
C18_DataErrorsAre4xx ==
    (/\ response # None /\ HasData
     /\ \/ response.request.table.cols \cap FeatureColumns = {}
        \/ response.request.table.nrows <= sequence_length)
    => response.status \in 400 .. 499

\* C28: over a sequence of /forecast requests, train is invoked only by
\* requests that arrive while the global forecaster is untrained (and by
\* each of these that carries historical_data); a request that arrives
\* once it is trained is answered by predict alone and leaves the model,
\* the normalization state and is_trained as they were, whatever
\* historical_data it carries.
C28_TrainOnlyWhileUntrained ==
    (response # None /\ response.endpoint = "/forecast")
    => /\ (\E i \in 1 .. Len(response.calls) : response.calls[i] = "train")
             => ~response.trained_before
       /\ (~response.trained_before /\ HasData) => response.calls[1] = "train"
       /\ response.trained_before
             => /\ response.calls = IF HasData THEN <<"predict">> ELSE <<>>
                /\ response.unchanged
                /\ is_trained

C28_Witness ==
    /\ response # None /\ response.endpoint = "/forecast"
    /\ response.trained_before /\ response.status = 200
    /\ response.calls = <<"predict">>
    /\ response.request.table # model.weights.learned_from.table

-----------------------------------------------------------------------------
(* Properties of concurrent requests *)

\* thread t is inside forecaster.train
InTrain(t) ==
    threads[t].pc \in {"scaler_check", "scaler_new", "scaler_fit", "scaler_transform",
                       "model_new", "training_loop", "set_trained"}

\* C20: no two train calls execute at the same time on the global
\* forecaster, and no request sees a scaler or a model that is being
\* replaced: none fails on a scaler not fitted yet and every forecast sent
\* is made by a model that has been trained.
C20_TrainSerialized ==
    /\ \A t, u \in 1 .. MaxThreads : (t # u /\ InTrain(t)) => ~InTrain(u)
    /\ (response # None /\ response.status = 200)
          => response.forecast_from.weights.learned_from # None
    /\ (response # None) => response.status # 500

-----------------------------------------------------------------------------
(* Properties of the HybridLSTM *)

\* C21: HybridLSTM.forward invokes the variational layer on every timestep
\* of every sample whenever the feature width is at least n_qubits =
\* min(4, width), passes through only otherwise, and the enhanced sequence
\* has the shape [N, T, F] of the input.
C21_LayerOnEveryTimestep ==
    encoded # None
    => LET N == Len(encoded.x)
           T == Len(encoded.x[1])
           F == Len(encoded.x[1][1])
       IN  /\ encoded.raised = NoError
           /\ (F >= Min(MaxQubits, F)) => encoded.invoked = 1 .. T
           /\ (F < Min(MaxQubits, F)) => encoded.invoked = {}
           /\ Len(encoded.quantum_enhanced) = N
           /\ \A i \in 1 .. N :
                 /\ Len(encoded.quantum_enhanced[i]) = T
                 /\ \A t \in 1 .. T : Len(encoded.quantum_enhanced[i][t]) = F

====
